---- MODULE Spec2Model ----
(***************************************************************************)
(* The Ollama process supervisor, the probe, the conversation window and   *)
(* the transcript context of src/app.py, as state machines.                *)
(*                                                                         *)
(* Strings whose characters matter (model names) are sequences of          *)
(* one-character strings; transcript texts are represented by their        *)
(* length, file names by sequences of character codes.                     *)
(***************************************************************************)
EXTENDS Integers, Sequences, FiniteSets, TLC

VARIABLES
    fn,      \* pure-function harness: the function under call ("none" outside it)
    arg,     \* pure-function harness: its arguments
    out,     \* pure-function harness: <<return value>>, or <<>> before the call returns
    \* the machine the app runs on
    backend, \* what GET {OLLAMA_HOST}/api/tags answers at present
    procs,   \* pids of the running processes whose command line matches "ollama serve"
    dirs,    \* the files of transcripts/ and data/uploads/
    \* st.session_state, per session
    service_log,          \* list of [action, result]
    ollama_start_failed,  \* <<>>, or <<seconds since the recorded time.time()>>
    messages,             \* list of [role, content]
    confirm_stop_ollama,
    \* control state, per session
    pc,      \* the statement the session's script is at ("idle" between runs)
    stack,   \* the functions being executed, outermost first
    pids,    \* stop_ollama_service's local pids
    i,       \* the loop counter of the polling loop being executed
    ret,     \* what each function returned in the current run: <<[ok, msg]>>, or <<>>
    \* history variables, per session
    launched,  \* the processes subprocess.Popen created in the current run
    signalled, \* [term, kill]: the pids the current run sent SIGTERM and SIGKILL to
    called,    \* the functions the current run has called, in order
    last_failure, \* <<>>, or <<seconds since ensure_ollama_running last recorded a failure>>
    last_launch,  \* <<>>, or <<seconds since the ensure_ollama_running() of a page run
                  \* (line 529) last launched a process>>, the backend not having been
                  \* ready since
    last_probe,   \* <<>>, or <<[status, calls]>>: what check_ollama_status returned to the
                  \* page script since the backend's answer last changed, and how often
    appended,  \* the number of turns appended since the chat history was last emptied
    sent       \* the turn list the chat handler has sent to the backend in this run

harnessVars == <<fn, arg, out>>
envVars == <<backend, procs, dirs>>
sessionVars == <<service_log, ollama_start_failed, messages, confirm_stop_ollama>>
controlVars == <<pc, stack, pids, i, ret, called>>
historyVars == <<launched, signalled, last_failure, last_launch>>
observedVars == <<last_probe, appended, sent>>
appVars == <<envVars, sessionVars, controlVars, historyVars, observedVars>>

vars == <<harnessVars, appVars>>

Returned == out # <<>>
RetVal == out[1]

Min(a, b) == IF a <= b THEN a ELSE b
Max(a, b) == IF a >= b THEN a ELSE b

(***************************************************************************)
(* Python sequence primitives.                                             *)
(***************************************************************************)

\* s[from:] for any integer from: a negative one counts from the end, and both ends clamp.
PySliceFrom(s, from) ==
    LET start == IF from < 0 THEN Max(Len(s) + from, 0) ELSE Min(from, Len(s))
    IN  SubSeq(s, start + 1, Len(s))

\* s[:j] for any integer j.
PySliceTo(s, j) ==
    LET stop == IF j < 0 THEN Max(Len(s) + j, 0) ELSE Min(j, Len(s))
    IN  SubSeq(s, 1, stop)

\* str.startswith
StartsWith(s, p) == Len(p) <= Len(s) /\ SubSeq(s, 1, Len(p)) = p

\* str.split(":")[0]: the part before the first colon, the whole string without one.
RECURSIVE BeforeColon(_)
BeforeColon(s) ==
    IF s = <<>> \/ Head(s) = ":" THEN <<>> ELSE <<Head(s)>> \o BeforeColon(Tail(s))

(***************************************************************************)
(* trim_conversation                                                       *)
(***************************************************************************)

MAX_CONVERSATION_EXCHANGES == 10

trim_conversation(msgs, max_exchanges) ==
    IF Len(msgs) <= max_exchanges * 2
    THEN msgs
    ELSE PySliceFrom(msgs, -(max_exchanges * 2))


(***************************************************************************)
(* Transcript store: get_all_files and get_all_transcript_content.         *)
(* A file is [name, source, text]: name a sequence of character codes      *)
(* (code 0 is "."), text the length of what read_file_content returns.     *)
(***************************************************************************)

RECURSIVE LexLess(_, _)
LexLess(a, b) ==
    IF b = <<>> THEN FALSE
    ELSE IF a = <<>> THEN TRUE
    ELSE IF Head(a) # Head(b) THEN Head(a) < Head(b)
    ELSE LexLess(Tail(a), Tail(b))

\* the directories are walked in this order, and sorted() is stable
SourceRank(src) == IF src = "bundled" THEN 0 ELSE 1

\* mutant of FileBefore: descending names
FileAfter(f, g) ==
    \/ LexLess(g.name, f.name)
    \/ f.name = g.name /\ SourceRank(f.source) < SourceRank(g.source)

FileBefore(f, g) ==
    \/ LexLess(f.name, g.name)
    \/ f.name = g.name /\ SourceRank(f.source) < SourceRank(g.source)

RECURSIVE SortedByName(_)
SortedByName(S) ==
    IF S = {} THEN <<>>
    ELSE LET first == CHOOSE f \in S : \A g \in S \ {f} : FileBefore(f, g)
         IN  <<first>> \o SortedByName(S \ {first})

\* d: the regular files of transcripts/ and data/uploads/
get_all_files(d) == SortedByName({f \in d : Head(f.name) # 0})

limit == 32000

\* mutant of chunk_of: the text is not cut at the budget
chunk_uncut(text, total) == text

\* text[: limit - total], as a length
chunk_of(text, total) == Min(text, limit - total)

\* the loop of get_all_transcript_content from file k on; parts are [name, chunk]
RECURSIVE ContextParts(_, _, _, _)
ContextParts(files, k, parts, total) ==
    IF k > Len(files) THEN parts
    ELSE LET text == files[k].text
         IN  IF text # 0 /\ total < limit
             THEN LET chunk == chunk_of(text, total)
                  IN  ContextParts(files, k + 1,
                                   Append(parts, [name |-> files[k].name, chunk |-> chunk]),
                                   total + chunk)
             ELSE ContextParts(files, k + 1, parts, total)

get_all_transcript_content(d) == ContextParts(get_all_files(d), 1, <<>>, 0)

\* len(f"=== File: {name} ===\n{chunk}\n")
PartLen(part) == 10 + Len(part.name) + 5 + part.chunk + 1

RECURSIVE SumPartLen(_)
SumPartLen(parts) ==
    IF parts = <<>> THEN 0 ELSE PartLen(Head(parts)) + SumPartLen(Tail(parts))

\* len("\n".join(parts))
ContextLen(parts) == SumPartLen(parts) + Max(Len(parts) - 1, 0)

RECURSIVE TextChars(_)
TextChars(parts) ==
    IF parts = <<>> THEN 0 ELSE Head(parts).chunk + TextChars(Tail(parts))


(***************************************************************************)
(* check_ollama_status: the probe.                                         *)
(* The outcome of requests.get is a response [status_code, json_ok, names] *)
(* (names: the "name" of each entry of the body's "models") or a raised    *)
(* exception of the requests library.                                      *)
(***************************************************************************)

\* "llama3.2:3b"
OLLAMA_MODEL == <<"l", "l", "a", "m", "a", "3", ".", "2", ":", "3", "b">>

\* the classes each exception of the requests library is an instance of
ExcBases(exc) ==
    CASE exc = "ConnectionError"  -> {"ConnectionError", "RequestException", "Exception"}
      [] exc = "ConnectTimeout"   -> {"ConnectTimeout", "ConnectionError", "Timeout",
                                      "RequestException", "Exception"}
      [] exc = "ReadTimeout"      -> {"ReadTimeout", "Timeout", "RequestException", "Exception"}
      [] exc = "TooManyRedirects" -> {"TooManyRedirects", "RequestException", "Exception"}
      [] exc = "JSONDecodeError"  -> {"JSONDecodeError", "RequestException", "Exception"}
      [] OTHER                    -> {exc, "Exception"}

IsInstance(exc, cls) == cls \in ExcBases(exc)

\* what requests.get raises
RequestExceptions == {"ConnectionError", "ConnectTimeout", "ReadTimeout", "TooManyRedirects"}

Response(code, ok, names) ==
    [kind |-> "response", status_code |-> code, json_ok |-> ok, names |-> names, exc |-> "none"]

Raise(exc) ==
    [kind |-> "raise", status_code |-> 0, json_ok |-> FALSE, names |-> <<>>, exc |-> exc]

\* the test of line 159
NameMatches(name, model) == name = model \/ StartsWith(name, BeforeColon(model))

\* the for loop of lines 158-160: the first matching name, <<>> wrapped as no match
RECURSIVE FirstMatch(_, _)
FirstMatch(model_names, model) ==
    IF model_names = <<>> THEN <<>>
    ELSE IF NameMatches(Head(model_names), model) THEN <<Head(model_names)>>
    ELSE FirstMatch(Tail(model_names), model)

\* the exception the try block of check_ollama_status raises, "none" without one:
\* requests.get raises, or resp.json() does on a 200 response with no JSON body
ProbeRaises(http) ==
    IF http.kind = "raise" THEN http.exc
    ELSE IF http.status_code = 200 /\ ~http.json_ok THEN "JSONDecodeError"
    ELSE "none"

\* the except clauses of lines 162-167, in their order
ProbeHandler(exc) ==
    IF IsInstance(exc, "ConnectionError")
    THEN [status |-> "offline", detail |-> <<"Ollama server is not running">>]
    ELSE IF IsInstance(exc, "Timeout")
    THEN [status |-> "timeout", detail |-> <<"Ollama server timed out">>]
    ELSE [status |-> "error", detail |-> <<"str(e)", exc>>]

check_ollama_status(model, http) ==
    IF ProbeRaises(http) # "none" THEN ProbeHandler(ProbeRaises(http))
    ELSE IF http.status_code # 200
    THEN [status |-> "server_error", detail |-> <<"Ollama server returned an error">>]
    ELSE LET found == FirstMatch(http.names, model)
         IN  IF found # <<>>
             THEN [status |-> "ready", detail |-> found[1]]
             ELSE [status |-> "no_model", detail |-> <<"Model not found. Available:">> \o http.names]


(***************************************************************************)
(* The service control functions, statement by statement.  A session runs  *)
(* one script at a time; stack[s] holds the functions it is inside of.     *)
(*                                                                         *)
(* Clock: the only use of time.time() is the age of the start-failure      *)
(* marker, so the marker is kept as the seconds elapsed since it was       *)
(* recorded, saturating at the throttle window.                            *)
(***************************************************************************)

Sessions == DOMAIN pc

ThrottleSecs == 30
StartPolls == 15
StopPolls == 10

\* the pids a machine can give to "ollama serve" processes
MaxProcs == 2
Pids == 1..MaxProcs

Functions ==
    {"start_ollama_service", "stop_ollama_service", "restart_ollama_service",
     "ensure_ollama_running", "check_ollama_status"}

NoReturns == [f \in Functions |-> <<>>]
NoSignals == [term |-> {}, kill |-> {}]

\* the first statement of each function
EntryOf(f) ==
    CASE f = "start_ollama_service"   -> "start"
      [] f = "stop_ollama_service"    -> "stop"
      [] f = "restart_ollama_service" -> "restart"
      [] f = "ensure_ollama_running"  -> "ensure"
      [] f = "check_ollama_status"    -> "probe"

\* the function that called the one being executed ("script": the page script)
Caller(s) == IF Len(stack[s]) >= 2 THEN stack[s][Len(stack[s]) - 1] ELSE "script"

\* mutant of ResumeAt: ensure_ollama_running starts over after a start
ResumeAtRetrying(caller, f) ==
    CASE caller = "restart_ollama_service" /\ f = "stop_ollama_service"  -> "restart_after_stop"
      [] caller = "restart_ollama_service" /\ f = "start_ollama_service" -> "restart_return"
      [] caller = "ensure_ollama_running" /\ f = "start_ollama_service"  -> "ensure"
      [] caller = "chat_input" /\ f = "ensure_ollama_running"            -> "chat_after_ensure"
      [] caller = "page" /\ f = "ensure_ollama_running"                  -> "sidebar"
      [] OTHER -> "done"

\* where the caller goes on once f has returned
ResumeAt(caller, f) ==
    CASE caller = "restart_ollama_service" /\ f = "stop_ollama_service"  -> "restart_after_stop"
      [] caller = "restart_ollama_service" /\ f = "start_ollama_service" -> "restart_return"
      [] caller = "ensure_ollama_running" /\ f = "start_ollama_service"  -> "ensure_after_start"
      [] caller = "chat_input" /\ f = "ensure_ollama_running"            -> "chat_after_ensure"
      [] caller = "page" /\ f = "ensure_ollama_running"                  -> "sidebar"
      [] OTHER -> "done"

Calls(s, f) ==
    /\ pc' = [pc EXCEPT ![s] = EntryOf(f)]
    /\ stack' = [stack EXCEPT ![s] = Append(@, f)]
    /\ ret' = [ret EXCEPT ![s][f] = <<>>]
    /\ called' = [called EXCEPT ![s] = Append(@, f)]

Returns(s, f, value) ==
    /\ pc' = [pc EXCEPT ![s] = ResumeAt(Caller(s), f)]
    /\ stack' = [stack EXCEPT ![s] = SubSeq(@, 1, Len(@) - 1)]
    /\ ret' = [ret EXCEPT ![s][f] = <<value>>]
    /\ UNCHANGED called

Goto(s, label) ==
    /\ pc' = [pc EXCEPT ![s] = label]
    /\ UNCHANGED <<stack, ret, called>>

\* _log_service_event
log_service_event(log, action, result) == Append(log, [action |-> action, result |-> result])

Logs(s, action, result) ==
    service_log' = [service_log EXCEPT ![s] = log_service_event(@, action, result)]

\* time.sleep(d), d in whole seconds: every recorded marker ages
Aged(marker, d) == IF marker = <<>> THEN marker ELSE <<Min(marker[1] + d, ThrottleSecs)>>

Sleep(d) ==
    /\ ollama_start_failed' = [t \in Sessions |-> Aged(ollama_start_failed[t], d)]
    /\ last_failure' = [t \in Sessions |-> Aged(last_failure[t], d)]
    /\ last_launch' = [t \in Sessions |-> Aged(last_launch[t], d)]

RECURSIVE Ascending(_)
Ascending(S) ==
    IF S = {} THEN <<>>
    ELSE LET least == CHOOSE p \in S : \A q \in S : p <= q
         IN  <<least>> \o Ascending(S \ {least})

\* What "pgrep -f 'ollama serve'" does: "pids" (it runs and prints the matching
\* pids, none included) or "error" (it cannot be run, times out or fails).
Lookups == {"pids", "error"}

\* get_ollama_pids: a failed lookup returns [] like an empty one
get_ollama_pids(lookup, running) == IF lookup = "pids" THEN Ascending(running) ELSE <<>>

Range(seq) == {seq[j] : j \in 1..Len(seq)}

(* start_ollama_service *)

\* mutant of StartProbe: the check waits while another session is between its
\* own check and its return
StartProbeLocked(s) ==
    /\ pc[s] = "start"
    /\ \A t \in Sessions \ {s} : pc[t] \notin {"start_popen", "start_poll"}
    /\ LET st == check_ollama_status(OLLAMA_MODEL, backend).status
       IN  IF st = "ready"
              THEN /\ Logs(s, "START", <<"Ollama is already running">>)
                   /\ Returns(s, "start_ollama_service",
                              [ok |-> TRUE, msg |-> <<"Ollama is already running">>])
              ELSE /\ Goto(s, "start_popen")
                   /\ UNCHANGED service_log
    /\ UNCHANGED <<harnessVars, observedVars, envVars, ollama_start_failed, messages,
                   confirm_stop_ollama, pids, i, historyVars>>

\* lines 203-207
StartProbe(s) ==
    /\ pc[s] = "start"
    /\ LET st == check_ollama_status(OLLAMA_MODEL, backend).status
       IN  IF st = "ready"
              THEN /\ Logs(s, "START", <<"Ollama is already running">>)
                   /\ Returns(s, "start_ollama_service",
                              [ok |-> TRUE, msg |-> <<"Ollama is already running">>])
              ELSE /\ Goto(s, "start_popen")
                   /\ UNCHANGED service_log
    /\ UNCHANGED <<harnessVars, observedVars, envVars, ollama_start_failed, messages, confirm_stop_ollama,
                   pids, i, historyVars>>

\* what subprocess.Popen(["ollama", "serve"], ...) does: it raises, or it creates
\* a process that keeps running, or one that has exited before anyone looks
PopenOutcomes == {"FileNotFoundError", "PermissionError", "running", "exited"}

\* the start being executed was called by the ensure_ollama_running() of line 529
AutoStart(s) ==
    /\ Len(stack[s]) = 3
    /\ stack[s][1] = "page"
    /\ stack[s][2] = "ensure_ollama_running"

\* last_launch once s has launched a process
ByEnsure(s) == IF AutoStart(s) THEN [last_launch EXCEPT ![s] = <<0>>] ELSE last_launch

\* lines 209-218, and the except clauses of lines 238-245 for Popen
StartPopen(s) ==
    /\ pc[s] = "start_popen"
    /\ \E outcome \in PopenOutcomes :
        CASE outcome = "FileNotFoundError" ->
                /\ Logs(s, "START", <<"ollama binary not found">>)
                /\ Returns(s, "start_ollama_service",
                           [ok |-> FALSE, msg |-> <<"ollama binary not found">>])
                /\ UNCHANGED <<procs, i, launched, last_launch>>
          [] outcome = "PermissionError" ->
                /\ Logs(s, "START", <<"Failed to start:", outcome>>)
                /\ Returns(s, "start_ollama_service",
                           [ok |-> FALSE, msg |-> <<"Failed to start:", outcome>>])
                /\ UNCHANGED <<procs, i, launched, last_launch>>
          [] outcome = "running" ->
                /\ \E p \in Pids \ procs : procs' = procs \cup {p}
                /\ launched' = [launched EXCEPT ![s] = @ + 1]
                /\ last_launch' = ByEnsure(s)
                /\ i' = [i EXCEPT ![s] = 0]
                /\ Goto(s, "start_poll")
                /\ UNCHANGED service_log
          [] outcome = "exited" ->
                /\ launched' = [launched EXCEPT ![s] = @ + 1]
                /\ last_launch' = ByEnsure(s)
                /\ i' = [i EXCEPT ![s] = 0]
                /\ Goto(s, "start_poll")
                /\ UNCHANGED <<service_log, procs>>
    /\ UNCHANGED <<harnessVars, observedVars, backend, dirs, ollama_start_failed, messages,
                   confirm_stop_ollama, pids, signalled, last_failure>>

\* line 225: the test of the health poll
PollSucceeds(http) == http.kind = "response" /\ http.status_code = 200

\* lines 221-232, one iteration; a request exception other than ConnectionError
\* leaves the loop for the except clause of line 242
StartPoll(s) ==
    /\ pc[s] = "start_poll"
    /\ i[s] < StartPolls
    /\ Sleep(1)
    /\ IF PollSucceeds(backend)
       THEN \E lookup \in Lookups :
               LET found == get_ollama_pids(lookup, procs)
                   pid_str == IF found # <<>> THEN ToString(found[1]) ELSE "?"
                   msg == <<"Ollama started successfully (PID)", pid_str>>
               IN  /\ Logs(s, "START", msg)
                   /\ Returns(s, "start_ollama_service", [ok |-> TRUE, msg |-> msg])
                   /\ UNCHANGED i
       ELSE IF backend.kind = "response" \/ IsInstance(backend.exc, "ConnectionError")
       THEN /\ i' = [i EXCEPT ![s] = @ + 1]
            /\ Goto(s, "start_poll")
            /\ UNCHANGED service_log
       ELSE /\ Logs(s, "START", <<"Failed to start:", backend.exc>>)
            /\ Returns(s, "start_ollama_service",
                       [ok |-> FALSE, msg |-> <<"Failed to start:", backend.exc>>])
            /\ UNCHANGED i
    /\ UNCHANGED <<harnessVars, observedVars, envVars, messages, confirm_stop_ollama, pids,
                   launched, signalled>>

\* lines 234-236
StartGiveUp(s) ==
    /\ pc[s] = "start_poll"
    /\ i[s] = StartPolls
    /\ Logs(s, "START", <<"Ollama process started but health check failed after 15 s">>)
    /\ Returns(s, "start_ollama_service",
               [ok |-> FALSE,
                msg |-> <<"Ollama process started but health check failed after 15 s">>])
    /\ UNCHANGED <<harnessVars, observedVars, envVars, ollama_start_failed, messages, confirm_stop_ollama,
                   pids, i, historyVars>>

(* stop_ollama_service *)

\* lines 253-257
StopLookup(s) ==
    /\ pc[s] = "stop"
    /\ \E lookup \in Lookups :
        LET found == get_ollama_pids(lookup, procs)
        IN  /\ pids' = [pids EXCEPT ![s] = found]
            /\ IF found = <<>>
               THEN /\ Logs(s, "STOP", <<"Ollama is not running">>)
                    /\ Returns(s, "stop_ollama_service",
                               [ok |-> TRUE, msg |-> <<"Ollama is not running">>])
               ELSE /\ Goto(s, "stop_term")
                    /\ UNCHANGED service_log
    /\ UNCHANGED <<harnessVars, observedVars, envVars, ollama_start_failed, messages, confirm_stop_ollama,
                   i, historyVars>>

\* The pids among the first n of targets that os.kill reaches: a pid that is gone
\* raises ProcessLookupError, which the loop passes over.
Reached(targets, n) == {targets[j] : j \in 1..n} \cap procs

\* An os.kill loop over targets gets through n of them; with n < Len(targets) the
\* next os.kill raises an exception other than ProcessLookupError (the process
\* exists and belongs to someone else), which only the outer except clause catches.
KillLoopRuns(targets, n) ==
    /\ n \in 0..Len(targets)
    /\ n < Len(targets) => targets[n + 1] \in procs

\* lines 261-265, and the except clause of lines 292-295
StopTerm(s) ==
    /\ pc[s] = "stop_term"
    /\ \E n \in 0..Len(pids[s]) :
        /\ KillLoopRuns(pids[s], n)
        /\ signalled' = [signalled EXCEPT ![s].term = @ \cup Reached(pids[s], n)]
        /\ IF n = Len(pids[s])
           THEN /\ i' = [i EXCEPT ![s] = 0]
                /\ Goto(s, "stop_wait")
                /\ UNCHANGED service_log
           ELSE /\ Logs(s, "STOP", <<"Error stopping Ollama:", "PermissionError">>)
                /\ Returns(s, "stop_ollama_service",
                           [ok |-> FALSE, msg |-> <<"Error stopping Ollama:", "PermissionError">>])
                /\ UNCHANGED i
    /\ UNCHANGED <<harnessVars, observedVars, envVars, ollama_start_failed, messages, confirm_stop_ollama,
                   pids, launched, last_failure, last_launch>>

\* lines 268-273, one iteration: time.sleep(0.5) moves the whole-second clock on
\* every second iteration
StopWait(s) ==
    /\ pc[s] = "stop_wait"
    /\ i[s] < StopPolls
    /\ Sleep(i[s] % 2)
    /\ \E lookup \in Lookups :
        IF get_ollama_pids(lookup, procs) = <<>>
        THEN /\ Logs(s, "STOP", <<"Ollama stopped gracefully">>)
             /\ Returns(s, "stop_ollama_service",
                        [ok |-> TRUE, msg |-> <<"Ollama stopped gracefully">>])
             /\ UNCHANGED i
        ELSE /\ i' = [i EXCEPT ![s] = @ + 1]
             /\ Goto(s, "stop_wait")
             /\ UNCHANGED service_log
    /\ UNCHANGED <<harnessVars, observedVars, envVars, messages, confirm_stop_ollama, pids,
                   launched, signalled>>

\* lines 276-280: SIGKILL to what a new lookup finds; the processes it reaches
\* die, at once or (uninterruptible ones) not before the final lookup
StopKill(s) ==
    /\ pc[s] = "stop_wait"
    /\ i[s] = StopPolls
    /\ \E lookup \in Lookups :
        LET targets == get_ollama_pids(lookup, procs)
        IN  \E n \in 0..Len(targets) :
              /\ KillLoopRuns(targets, n)
              /\ signalled' = [signalled EXCEPT ![s].kill = @ \cup Reached(targets, n)]
              /\ \E gone \in SUBSET Reached(targets, n) : procs' = procs \ gone
              /\ IF n = Len(targets)
                 THEN /\ Goto(s, "stop_final")
                      /\ UNCHANGED service_log
                 ELSE /\ Logs(s, "STOP", <<"Error stopping Ollama:", "PermissionError">>)
                      /\ Returns(s, "stop_ollama_service",
                                 [ok |-> FALSE,
                                  msg |-> <<"Error stopping Ollama:", "PermissionError">>])
    /\ UNCHANGED <<harnessVars, observedVars, backend, dirs, ollama_start_failed, messages,
                   confirm_stop_ollama, pids, i, launched, last_failure,
                   last_launch>>

\* lines 281-290
StopFinal(s) ==
    /\ pc[s] = "stop_final"
    /\ Sleep(1)
    /\ \E lookup \in Lookups :
        IF get_ollama_pids(lookup, procs) = <<>>
        THEN /\ Logs(s, "STOP", <<"Ollama force-stopped (SIGKILL)">>)
             /\ Returns(s, "stop_ollama_service",
                        [ok |-> TRUE, msg |-> <<"Ollama force-stopped (SIGKILL)">>])
        ELSE /\ Logs(s, "STOP", <<"Could not stop all Ollama processes">>)
             /\ Returns(s, "stop_ollama_service",
                        [ok |-> FALSE, msg |-> <<"Could not stop all Ollama processes">>])
    /\ UNCHANGED <<harnessVars, observedVars, envVars, messages, confirm_stop_ollama, pids, i,
                   launched, signalled>>

(* restart_ollama_service *)

\* lines 303-304
RestartBegin(s) ==
    /\ pc[s] = "restart"
    /\ Logs(s, "RESTART", <<"Initiated">>)
    /\ Calls(s, "stop_ollama_service")
    /\ UNCHANGED <<harnessVars, observedVars, envVars, ollama_start_failed, messages, confirm_stop_ollama,
                   pids, i, historyVars>>

\* mutant of RestartAborts: a failed stop does not abort the restart
RestartNeverAborts(stopped) == FALSE

\* line 305
RestartAborts(stopped) == ~stopped.ok

\* lines 305-308, up to the call of start_ollama_service
RestartAfterStop(s) ==
    /\ pc[s] = "restart_after_stop"
    /\ LET stopped == ret[s]["stop_ollama_service"][1]
       IN  IF RestartAborts(stopped)
           THEN /\ Returns(s, "restart_ollama_service",
                           [ok |-> FALSE,
                            msg |-> <<"Restart aborted - stop failed:">> \o stopped.msg])
                /\ UNCHANGED <<ollama_start_failed, last_failure, last_launch>>
           ELSE /\ Sleep(2)
                /\ Calls(s, "start_ollama_service")
    /\ UNCHANGED <<harnessVars, observedVars, envVars, service_log, messages, confirm_stop_ollama,
                   pids, i, launched, signalled>>

\* line 308: return what start_ollama_service returned
RestartReturn(s) ==
    /\ pc[s] = "restart_return"
    /\ Returns(s, "restart_ollama_service", ret[s]["start_ollama_service"][1])
    /\ UNCHANGED <<harnessVars, observedVars, envVars, sessionVars, pids, i, historyVars>>

(* ensure_ollama_running *)

\* time.time() - st.session_state.get("_ollama_start_failed", 0), saturated: without
\* a marker it is the time since the epoch
SinceStartFailed(marker) == IF marker = <<>> THEN ThrottleSecs ELSE marker[1]

\* mutant of Throttled: a window of half the length
ThrottledHalf(marker) == 2 * SinceStartFailed(marker) < ThrottleSecs

\* line 324
Throttled(marker) == SinceStartFailed(marker) < ThrottleSecs

\* lines 317-328, up to the call of start_ollama_service
EnsureProbe(s) ==
    /\ pc[s] = "ensure"
    /\ LET st == check_ollama_status(OLLAMA_MODEL, backend).status
       IN  IF st = "ready"
              THEN /\ ollama_start_failed' = [ollama_start_failed EXCEPT ![s] = <<>>]
                   /\ Returns(s, "ensure_ollama_running", [ok |-> TRUE, msg |-> <<>>])
              ELSE IF Throttled(ollama_start_failed[s])
              THEN /\ Returns(s, "ensure_ollama_running", [ok |-> FALSE, msg |-> <<>>])
                   /\ UNCHANGED ollama_start_failed
              ELSE /\ Calls(s, "start_ollama_service")
                   /\ UNCHANGED ollama_start_failed
    /\ UNCHANGED <<harnessVars, observedVars, envVars, service_log, messages, confirm_stop_ollama,
                   pids, i, historyVars>>

\* lines 329-335
EnsureAfterStart(s) ==
    /\ pc[s] = "ensure_after_start"
    /\ IF ret[s]["start_ollama_service"][1].ok
       THEN /\ Returns(s, "ensure_ollama_running", [ok |-> TRUE, msg |-> <<>>])
            /\ UNCHANGED <<ollama_start_failed, last_failure>>
       ELSE /\ ollama_start_failed' = [ollama_start_failed EXCEPT ![s] = <<0>>]
            /\ last_failure' = [last_failure EXCEPT ![s] = <<0>>]
            /\ Returns(s, "ensure_ollama_running", [ok |-> FALSE, msg |-> <<>>])
    /\ UNCHANGED <<harnessVars, observedVars, envVars, service_log, messages, confirm_stop_ollama,
                   pids, i, launched, signalled, last_launch>>

(* check_ollama_status, called by the page script (line 549) *)

\* mutant of ProbeStep: a 'ready' probe clears the start-failure marker, as
\* ensure_ollama_running does
ProbeStepClearing(s) ==
    /\ pc[s] = "probe"
    /\ LET probed == check_ollama_status(OLLAMA_MODEL, backend)
           times == IF last_probe[s] = <<>> THEN 0 ELSE last_probe[s][1].calls
       IN  /\ Returns(s, "check_ollama_status",
                      [ok |-> probed.status = "ready", msg |-> <<probed.status>>])
           /\ last_probe' = [last_probe EXCEPT
                                ![s] = <<[status |-> probed.status, calls |-> Min(times + 1, 2)]>>]
           /\ ollama_start_failed' =
                  [ollama_start_failed EXCEPT ![s] = IF probed.status = "ready" THEN <<>> ELSE @]
    /\ UNCHANGED <<harnessVars, appended, sent, envVars, service_log, messages,
                   confirm_stop_ollama, pids, i, historyVars>>

ProbeStep(s) ==
    /\ pc[s] = "probe"
    /\ LET probed == check_ollama_status(OLLAMA_MODEL, backend)
           times == IF last_probe[s] = <<>> THEN 0 ELSE last_probe[s][1].calls
       IN  /\ Returns(s, "check_ollama_status",
                      [ok |-> probed.status = "ready", msg |-> <<probed.status>>])
           /\ last_probe' = [last_probe EXCEPT
                                ![s] = <<[status |-> probed.status, calls |-> Min(times + 1, 2)]>>]
    /\ UNCHANGED <<harnessVars, appended, sent, envVars, sessionVars, pids, i, historyVars>>

(***************************************************************************)
(* The machine: the backend's answer changes, processes exit, time passes. *)
(***************************************************************************)

\* "llama3.2:3b" installed, nothing installed, an error answer, a refused
\* connection, no answer in time, another exception of the requests library
Backends ==
    {Response(200, TRUE, <<OLLAMA_MODEL>>), Response(200, TRUE, <<>>), Response(500, TRUE, <<>>),
     Raise("ConnectionError"), Raise("ReadTimeout"), Raise("TooManyRedirects")}

BackendChanges ==
    /\ backend' \in Backends \ {backend}
    /\ last_probe' = [s \in Sessions |-> <<>>]
    /\ last_launch' = IF check_ollama_status(OLLAMA_MODEL, backend').status = "ready"
                      THEN [s \in Sessions |-> <<>>]
                      ELSE last_launch
    /\ UNCHANGED <<harnessVars, appended, sent, procs, dirs, sessionVars, controlVars,
                   launched, signalled, last_failure>>

ProcessExits ==
    /\ \E p \in procs : procs' = procs \ {p}
    /\ UNCHANGED <<harnessVars, observedVars, backend, dirs, sessionVars, controlVars, historyVars>>

Tick ==
    /\ \E t \in Sessions : \/ Aged(last_failure[t], 1) # last_failure[t]
                           \/ Aged(last_launch[t], 1) # last_launch[t]
    /\ Sleep(1)
    /\ UNCHANGED <<harnessVars, observedVars, envVars, service_log, messages, confirm_stop_ollama,
                   controlVars, launched, signalled>>

(***************************************************************************)
(* Harness of the service control functions: a session calls them one at a *)
(* time, each on an emptied service log (the Clear Log button, line 760).  *)
(***************************************************************************)

AtRest(S) ==
    /\ pc = [s \in S |-> "idle"]
    /\ stack = [s \in S |-> <<>>]
    /\ pids = [s \in S |-> <<>>]
    /\ i = [s \in S |-> 0]
    /\ ret = [s \in S |-> NoReturns]
    /\ launched = [s \in S |-> 0]
    /\ signalled = [s \in S |-> NoSignals]
    /\ called = [s \in S |-> <<>>]
    /\ last_failure = [s \in S |-> <<>>]
    /\ last_launch = [s \in S |-> <<>>]
    /\ last_probe = [s \in S |-> <<>>]
    /\ appended = [s \in S |-> 0]
    /\ sent = [s \in S |-> <<>>]

\* lines 517-526
NewSessions(S) ==
    /\ service_log = [s \in S |-> <<>>]
    /\ ollama_start_failed = [s \in S |-> <<>>]
    /\ messages = [s \in S |-> <<>>]
    /\ confirm_stop_ollama = [s \in S |-> FALSE]

NoHarness == fn = "none" /\ arg = <<>> /\ out = <<>>

Call(s, f) ==
    /\ pc[s] = "idle"
    /\ service_log[s] = <<>>
    /\ pc' = [pc EXCEPT ![s] = EntryOf(f)]
    /\ stack' = [stack EXCEPT ![s] = <<f>>]
    /\ called' = [called EXCEPT ![s] = <<f>>]
    /\ UNCHANGED <<harnessVars, observedVars, envVars, sessionVars, pids, i, ret, historyVars>>

\* the call has returned to the harness
Finish(s) ==
    /\ pc[s] = "done"
    /\ pc' = [pc EXCEPT ![s] = "idle"]
    /\ pids' = [pids EXCEPT ![s] = <<>>]
    /\ i' = [i EXCEPT ![s] = 0]
    /\ ret' = [ret EXCEPT ![s] = NoReturns]
    /\ launched' = [launched EXCEPT ![s] = 0]
    /\ signalled' = [signalled EXCEPT ![s] = NoSignals]
    /\ called' = [called EXCEPT ![s] = <<>>]
    /\ UNCHANGED <<harnessVars, observedVars, envVars, sessionVars, stack, last_failure,
                   last_launch>>

\* lines 760-762
ClearLog(s) ==
    /\ pc[s] = "idle"
    /\ service_log[s] # <<>>
    /\ service_log' = [service_log EXCEPT ![s] = <<>>]
    /\ UNCHANGED <<harnessVars, observedVars, envVars, ollama_start_failed, messages, confirm_stop_ollama,
                   controlVars, historyVars>>

MachineInit == backend \in Backends /\ procs \in SUBSET Pids /\ dirs = {}

\* one session calling start, stop and restart
LifecycleInit == NoHarness /\ MachineInit /\ NewSessions({1}) /\ AtRest({1})

LifecycleNext ==
    \/ \E s \in Sessions : Call(s, "start_ollama_service")
    \/ \E s \in Sessions : Call(s, "stop_ollama_service")
    \/ \E s \in Sessions : Call(s, "restart_ollama_service")
    \/ \E s \in Sessions : StartProbe(s)
    \/ \E s \in Sessions : StartPopen(s)
    \/ \E s \in Sessions : StartPoll(s)
    \/ \E s \in Sessions : StartGiveUp(s)
    \/ \E s \in Sessions : StopLookup(s)
    \/ \E s \in Sessions : StopTerm(s)
    \/ \E s \in Sessions : StopWait(s)
    \/ \E s \in Sessions : StopKill(s)
    \/ \E s \in Sessions : StopFinal(s)
    \/ \E s \in Sessions : RestartBegin(s)
    \/ \E s \in Sessions : RestartAfterStop(s)
    \/ \E s \in Sessions : RestartReturn(s)
    \/ \E s \in Sessions : Finish(s)
    \/ \E s \in Sessions : ClearLog(s)
    \/ BackendChanges
    \/ ProcessExits

Spec == LifecycleInit /\ [][LifecycleNext]_vars

\* one session calling ensure_ollama_running and check_ollama_status, as every run
\* of the page script does (lines 529, 549)
RefreshInit == NoHarness /\ MachineInit /\ NewSessions({1}) /\ AtRest({1})

RefreshNext ==
    \/ \E s \in Sessions : Call(s, "ensure_ollama_running")
    \/ \E s \in Sessions : Call(s, "check_ollama_status")
    \/ \E s \in Sessions : EnsureProbe(s)
    \/ \E s \in Sessions : EnsureAfterStart(s)
    \/ \E s \in Sessions : StartProbe(s)
    \/ \E s \in Sessions : StartPopen(s)
    \/ \E s \in Sessions : StartPoll(s)
    \/ \E s \in Sessions : StartGiveUp(s)
    \/ \E s \in Sessions : ProbeStep(s)
    \/ \E s \in Sessions : Finish(s)
    \/ \E s \in Sessions : ClearLog(s)
    \/ BackendChanges
    \/ ProcessExits
    \/ Tick

SpecRefresh == RefreshInit /\ [][RefreshNext]_vars

(***************************************************************************)
(* The learn page's chat: the chat input handler, the example prompt       *)
(* buttons, New Chat and Clear.  The content of a turn is its serial       *)
(* number since the history was last emptied.  A session submits on an     *)
(* emptied service log.                                                    *)
(***************************************************************************)

\* the chat submissions explored per conversation
MaxSubmits == 11

Turn(role, s) == [role |-> role, content |-> appended[s] + 1]

\* st.session_state.messages.append(...)
AppendTurn(s, role) ==
    /\ messages' = [messages EXCEPT ![s] = Append(@, Turn(role, s))]
    /\ appended' = [appended EXCEPT ![s] = @ + 1]

\* lines 963-982: the user turn, and the fixed answer when there is no transcript
\* text.  Both appends of the no-transcript branch happen in this step.
ChatHandler(s) ==
    /\ stack' = [stack EXCEPT ![s] = <<"chat_input">>]
    /\ IF get_all_transcript_content(dirs) = <<>>
       THEN /\ messages' = [messages EXCEPT
                              ![s] = @ \o <<Turn("user", s),
                                            [role |-> "assistant", content |-> appended[s] + 2]>>]
            /\ appended' = [appended EXCEPT ![s] = @ + 2]
            /\ pc' = [pc EXCEPT ![s] = "done"]
       ELSE /\ AppendTurn(s, "user")
            /\ pc' = [pc EXCEPT ![s] = "chat_probe"]
    /\ UNCHANGED <<harnessVars, envVars, service_log, ollama_start_failed,
                   confirm_stop_ollama, pids, i, ret, called, historyVars, last_probe>>
    /\ sent' = [sent EXCEPT ![s] = <<>>]

\* a chat submission, handled by the chat input handler
ChatSubmit(s) ==
    /\ pc[s] = "idle"
    /\ service_log[s] = <<>>
    /\ appended[s] < 2 * MaxSubmits
    /\ ChatHandler(s)

\* lines 985-990
ChatProbe(s) ==
    /\ pc[s] = "chat_probe"
    /\ IF check_ollama_status(OLLAMA_MODEL, backend).status # "ready"
       THEN Calls(s, "ensure_ollama_running")
       ELSE Goto(s, "chat_stream")
    /\ UNCHANGED <<harnessVars, envVars, sessionVars, pids, i, historyVars, observedVars>>

\* lines 991-1008: the probe is repeated only when ensure_ollama_running returned
\* True; otherwise model_status is still the not-ready one of line 985
ChatAfterEnsure(s) ==
    /\ pc[s] = "chat_after_ensure"
    /\ LET auto_ok == ret[s]["ensure_ollama_running"][1].ok
           ready == auto_ok /\ check_ollama_status(OLLAMA_MODEL, backend).status = "ready"
       IN  IF ~ready
           THEN /\ AppendTurn(s, "assistant")
                /\ Goto(s, "done")
           ELSE /\ Goto(s, "chat_stream")
                /\ UNCHANGED <<messages, appended>>
    /\ UNCHANGED <<harnessVars, envVars, service_log, ollama_start_failed,
                   confirm_stop_ollama, pids, i, historyVars, last_probe, sent>>

\* lines 1010-1031: whatever the stream yields (the answer or an error text) is
\* appended as the assistant turn
ChatStream(s) ==
    /\ pc[s] = "chat_stream"
    /\ sent' = [sent EXCEPT ![s] = trim_conversation(messages[s], MAX_CONVERSATION_EXCHANGES)]
    /\ messages' = [messages EXCEPT
                      ![s] = trim_conversation(Append(@, Turn("assistant", s)),
                                               MAX_CONVERSATION_EXCHANGES)]
    /\ appended' = [appended EXCEPT ![s] = @ + 1]
    /\ Goto(s, "done")
    /\ UNCHANGED <<harnessVars, envVars, service_log, ollama_start_failed,
                   confirm_stop_ollama, pids, i, historyVars, last_probe>>

\* lines 956-960: shown only while the history is empty
ExampleClick(s) ==
    /\ pc[s] = "idle"
    /\ messages[s] = <<>>
    /\ AppendTurn(s, "user")
    /\ UNCHANGED <<harnessVars, envVars, service_log, ollama_start_failed,
                   confirm_stop_ollama, controlVars, historyVars, last_probe, sent>>

\* lines 913-919: New Chat and Clear do the same
NewChat(s) ==
    /\ pc[s] = "idle"
    /\ messages[s] # <<>>
    /\ messages' = [messages EXCEPT ![s] = <<>>]
    /\ appended' = [appended EXCEPT ![s] = 0]
    /\ UNCHANGED <<harnessVars, envVars, service_log, ollama_start_failed,
                   confirm_stop_ollama, controlVars, historyVars, last_probe, sent>>

\* no transcript, or one transcript of a few characters
Transcripts == {{}, {[name |-> <<1>>, source |-> "bundled", text |-> 5]}}

\* The machine changes between the runs of the page script and while a start
\* waits for the server it has launched.
Settled == \A s \in Sessions : pc[s] \in {"idle", "start_poll"}

ChatInit ==
    /\ NoHarness
    /\ backend \in Backends /\ procs \in SUBSET Pids /\ dirs \in Transcripts
    /\ NewSessions({1}) /\ AtRest({1})

ChatNext ==
    \/ \E s \in Sessions : ChatSubmit(s)
    \/ \E s \in Sessions : ChatProbe(s)
    \/ \E s \in Sessions : ChatAfterEnsure(s)
    \/ \E s \in Sessions : ChatStream(s)
    \/ \E s \in Sessions : ExampleClick(s)
    \/ \E s \in Sessions : NewChat(s)
    \/ \E s \in Sessions : EnsureProbe(s)
    \/ \E s \in Sessions : EnsureAfterStart(s)
    \/ \E s \in Sessions : StartProbe(s)
    \/ \E s \in Sessions : StartPopen(s)
    \/ \E s \in Sessions : StartPoll(s)
    \/ \E s \in Sessions : StartGiveUp(s)
    \/ \E s \in Sessions : Finish(s)
    \/ \E s \in Sessions : ClearLog(s)
    \/ Settled /\ BackendChanges
    \/ Settled /\ ProcessExits

SpecChat == ChatInit /\ [][ChatNext]_vars

(***************************************************************************)
(* The run of the page script that a chat submission starts: the script    *)
(* runs from its top, through ensure_ollama_running() (line 529) and the   *)
(* sidebar's check_ollama_status() (line 549), to the chat input handler.  *)
(***************************************************************************)

\* the runs of the page script explored per conversation
MaxPageRuns == 1

\* lines 528-529
PageRun(s) ==
    /\ pc[s] = "idle"
    /\ service_log[s] = <<>>
    /\ appended[s] < 2 * MaxPageRuns
    /\ pc' = [pc EXCEPT ![s] = EntryOf("ensure_ollama_running")]
    /\ stack' = [stack EXCEPT ![s] = <<"page", "ensure_ollama_running">>]
    /\ called' = [called EXCEPT ![s] = <<"ensure_ollama_running">>]
    /\ UNCHANGED <<harnessVars, envVars, sessionVars, pids, i, ret, historyVars, observedVars>>

\* line 549: the classification is only displayed
SidebarProbe(s) ==
    /\ pc[s] = "sidebar"
    /\ pc' = [pc EXCEPT ![s] = "chat_input"]
    /\ UNCHANGED <<harnessVars, envVars, sessionVars, stack, pids, i, ret, called,
                   historyVars, observedVars>>

\* line 963: the submitted prompt reaches the chat input handler
ChatInput(s) ==
    /\ pc[s] = "chat_input"
    /\ ChatHandler(s)

PageInit == ChatInit

PageNext ==
    \/ \E s \in Sessions : PageRun(s)
    \/ \E s \in Sessions : SidebarProbe(s)
    \/ \E s \in Sessions : ChatInput(s)
    \/ \E s \in Sessions : ChatProbe(s)
    \/ \E s \in Sessions : ChatAfterEnsure(s)
    \/ \E s \in Sessions : ChatStream(s)
    \/ \E s \in Sessions : NewChat(s)
    \/ \E s \in Sessions : EnsureProbe(s)
    \/ \E s \in Sessions : EnsureAfterStart(s)
    \/ \E s \in Sessions : StartProbe(s)
    \/ \E s \in Sessions : StartPopen(s)
    \/ \E s \in Sessions : StartPoll(s)
    \/ \E s \in Sessions : StartGiveUp(s)
    \/ \E s \in Sessions : Finish(s)
    \/ \E s \in Sessions : ClearLog(s)
    \/ Settled /\ BackendChanges
    \/ Settled /\ ProcessExits

SpecPage == PageInit /\ [][PageNext]_vars

(***************************************************************************)
(* Two sessions (two browser tabs of the admin page) on the one machine:   *)
(* both call start_ollama_service; or session 1 calls stop_ollama_service  *)
(* while session 2 calls start_ollama_service.                             *)
(***************************************************************************)

TwoSessionsInit == NoHarness /\ MachineInit /\ NewSessions({1, 2}) /\ AtRest({1, 2})

TwoStartsNext ==
    \/ \E s \in Sessions : Call(s, "start_ollama_service")
    \/ \E s \in Sessions : StartProbe(s)
    \/ \E s \in Sessions : StartPopen(s)
    \/ \E s \in Sessions : StartPoll(s)
    \/ \E s \in Sessions : StartGiveUp(s)
    \/ \E s \in Sessions : Finish(s)
    \/ \E s \in Sessions : ClearLog(s)
    \/ BackendChanges
    \/ ProcessExits

SpecTwoStarts == TwoSessionsInit /\ [][TwoStartsNext]_vars

StopStartNext ==
    \/ Call(1, "stop_ollama_service")
    \/ Call(2, "start_ollama_service")
    \/ \E s \in Sessions : StartProbe(s)
    \/ \E s \in Sessions : StartPopen(s)
    \/ \E s \in Sessions : StartPoll(s)
    \/ \E s \in Sessions : StartGiveUp(s)
    \/ \E s \in Sessions : StopLookup(s)
    \/ \E s \in Sessions : StopTerm(s)
    \/ \E s \in Sessions : StopWait(s)
    \/ \E s \in Sessions : StopKill(s)
    \/ \E s \in Sessions : StopFinal(s)
    \/ \E s \in Sessions : Finish(s)
    \/ \E s \in Sessions : ClearLog(s)
    \/ BackendChanges
    \/ ProcessExits

SpecStopStart == TwoSessionsInit /\ [][StopStartNext]_vars

(***************************************************************************)
(* The admin panel's service control buttons (lines 696-753) in one        *)
(* session, with or without a chat history.  A click that calls a service  *)
(* control function is made on an emptied service log; the rerun after the *)
(* call is Finish.                                                         *)
(***************************************************************************)

\* line 675
is_running == check_ollama_status(OLLAMA_MODEL, backend).status = "ready"

\* the button's handler calls f
Click(s, button, f) ==
    /\ service_log[s] = <<>>
    /\ pc' = [pc EXCEPT ![s] = EntryOf(f)]
    /\ stack' = [stack EXCEPT ![s] = <<button, f>>]
    /\ called' = [called EXCEPT ![s] = <<f>>]
    /\ UNCHANGED <<harnessVars, observedVars, envVars, service_log, ollama_start_failed, messages,
                   pids, i, ret, historyVars>>

\* lines 699-701
AdminStart(s) ==
    /\ pc[s] = "idle"
    /\ ~is_running
    /\ Click(s, "Start", "start_ollama_service")
    /\ UNCHANGED confirm_stop_ollama

\* lines 711-718
AdminStop(s) ==
    /\ pc[s] = "idle"
    /\ ~confirm_stop_ollama[s]
    /\ is_running
    /\ IF messages[s] # <<>>
       THEN /\ confirm_stop_ollama' = [confirm_stop_ollama EXCEPT ![s] = TRUE]
            /\ UNCHANGED <<harnessVars, observedVars, envVars, service_log, ollama_start_failed,
                           messages, controlVars, historyVars>>
       ELSE /\ Click(s, "Stop", "stop_ollama_service")
            /\ UNCHANGED confirm_stop_ollama

\* lines 726-732
AdminConfirmStop(s) ==
    /\ pc[s] = "idle"
    /\ confirm_stop_ollama[s]
    /\ confirm_stop_ollama' = [confirm_stop_ollama EXCEPT ![s] = FALSE]
    /\ Click(s, "Confirm Stop", "stop_ollama_service")

\* lines 739-742
AdminCancel(s) ==
    /\ pc[s] = "idle"
    /\ confirm_stop_ollama[s]
    /\ confirm_stop_ollama' = [confirm_stop_ollama EXCEPT ![s] = FALSE]
    /\ UNCHANGED <<harnessVars, observedVars, envVars, service_log, ollama_start_failed,
                   messages, controlVars, historyVars>>

\* lines 745-747
AdminRestart(s) ==
    /\ pc[s] = "idle"
    /\ Click(s, "Restart", "restart_ollama_service")
    /\ UNCHANGED confirm_stop_ollama

\* the session has no chat history or one exchange
AdminInit ==
    /\ NoHarness /\ MachineInit
    /\ service_log = [s \in {1} |-> <<>>]
    /\ ollama_start_failed = [s \in {1} |-> <<>>]
    /\ messages \in [{1} -> {<<>>, <<[role |-> "user", content |-> 1],
                                     [role |-> "assistant", content |-> 2]>>}]
    /\ confirm_stop_ollama = [s \in {1} |-> FALSE]
    /\ pc = [s \in {1} |-> "idle"]
    /\ stack = [s \in {1} |-> <<>>]
    /\ pids = [s \in {1} |-> <<>>]
    /\ i = [s \in {1} |-> 0]
    /\ ret = [s \in {1} |-> NoReturns]
    /\ launched = [s \in {1} |-> 0]
    /\ signalled = [s \in {1} |-> NoSignals]
    /\ called = [s \in {1} |-> <<>>]
    /\ last_failure = [s \in {1} |-> <<>>]
    /\ last_launch = [s \in {1} |-> <<>>]
    /\ last_probe = [s \in {1} |-> <<>>]
    /\ appended = [s \in {1} |-> Len(messages[s])]
    /\ sent = [s \in {1} |-> <<>>]

AdminNext ==
    \/ \E s \in Sessions : AdminStart(s)
    \/ \E s \in Sessions : AdminStop(s)
    \/ \E s \in Sessions : AdminConfirmStop(s)
    \/ \E s \in Sessions : AdminCancel(s)
    \/ \E s \in Sessions : AdminRestart(s)
    \/ \E s \in Sessions : NewChat(s)
    \/ \E s \in Sessions : StartProbe(s)
    \/ \E s \in Sessions : StartPopen(s)
    \/ \E s \in Sessions : StartPoll(s)
    \/ \E s \in Sessions : StartGiveUp(s)
    \/ \E s \in Sessions : StopLookup(s)
    \/ \E s \in Sessions : StopTerm(s)
    \/ \E s \in Sessions : StopWait(s)
    \/ \E s \in Sessions : StopKill(s)
    \/ \E s \in Sessions : StopFinal(s)
    \/ \E s \in Sessions : RestartBegin(s)
    \/ \E s \in Sessions : RestartAfterStop(s)
    \/ \E s \in Sessions : RestartReturn(s)
    \/ \E s \in Sessions : Finish(s)
    \/ \E s \in Sessions : ClearLog(s)
    \/ BackendChanges
    \/ ProcessExits

SpecAdmin == AdminInit /\ [][AdminNext]_vars

(***************************************************************************)
(* One call of any of the four supervisor functions, by a session whose    *)
(* service log is empty.  Its failure marker is absent or just set; only   *)
(* ensure_ollama_running reads the marker (line 319), so the other three   *)
(* are called without it.                                                  *)
(***************************************************************************)

NoMarker(s) == ollama_start_failed[s] = <<>>

SupervisorInit ==
    /\ NoHarness /\ MachineInit /\ AtRest({1})
    /\ service_log = [s \in {1} |-> <<>>]
    /\ ollama_start_failed \in [{1} -> {<<>>, <<0>>}]
    /\ messages = [s \in {1} |-> <<>>]
    /\ confirm_stop_ollama = [s \in {1} |-> FALSE]

SupervisorNext ==
    \/ \E s \in Sessions : NoMarker(s) /\ Call(s, "start_ollama_service")
    \/ \E s \in Sessions : NoMarker(s) /\ Call(s, "stop_ollama_service")
    \/ \E s \in Sessions : NoMarker(s) /\ Call(s, "restart_ollama_service")
    \/ \E s \in Sessions : Call(s, "ensure_ollama_running")
    \/ \E s \in Sessions : StartProbe(s)
    \/ \E s \in Sessions : StartPopen(s)
    \/ \E s \in Sessions : StartPoll(s)
    \/ \E s \in Sessions : StartGiveUp(s)
    \/ \E s \in Sessions : StopLookup(s)
    \/ \E s \in Sessions : StopTerm(s)
    \/ \E s \in Sessions : StopWait(s)
    \/ \E s \in Sessions : StopKill(s)
    \/ \E s \in Sessions : StopFinal(s)
    \/ \E s \in Sessions : RestartBegin(s)
    \/ \E s \in Sessions : RestartAfterStop(s)
    \/ \E s \in Sessions : RestartReturn(s)
    \/ \E s \in Sessions : EnsureProbe(s)
    \/ \E s \in Sessions : EnsureAfterStart(s)
    \/ \E s \in Sessions : Finish(s)
    \/ BackendChanges
    \/ ProcessExits

SpecSupervisor == SupervisorInit /\ [][SupervisorNext]_vars

(***************************************************************************)
(* Properties of the service control functions.                            *)
(***************************************************************************)

NotReady == check_ollama_status(OLLAMA_MODEL, backend).status # "ready"

\* ensure_ollama_running, called by s, runs up to its return or its call of start
EnsureRuns(s) == pc[s] = "ensure" /\ pc'[s] # "ensure"

\* function f, called by s, returns in this step
ReturnsNow(s, f) == ret[s][f] = <<>> /\ ret'[s][f] # <<>>

\* the call of ensure_ollama_running returns False and has done nothing else
ThrottledReturn(s) ==
    /\ pc'[s] = ResumeAt(Caller(s), "ensure_ollama_running")
    /\ ret'[s]["ensure_ollama_running"] = <<[ok |-> FALSE, msg |-> <<>>]>>
    /\ called'[s] = called[s]
    /\ UNCHANGED <<service_log, procs, launched>>

\* C1 as stated: once ensure_ollama_running has recorded a start failure, every
\* later call made less than 30 s after it while the probe is not 'ready'
\* returns False without calling start_ollama_service, launching a process or
\* writing a log entry.
C1_ThrottleAfterRecordedFailure ==
    [][\A s \in Sessions :
         (/\ EnsureRuns(s)
          /\ NotReady
          /\ last_failure[s] # <<>>
          /\ last_failure[s][1] < ThrottleSecs) => ThrottledReturn(s)]_vars

\* C1 amended: the same, for the calls before which no call of
\* ensure_ollama_running since the failure has found the probe 'ready' (which
\* removes the record).
C1_ThrottleWhileRecorded ==
    [][\A s \in Sessions :
         (/\ EnsureRuns(s)
          /\ NotReady
          /\ last_failure[s] # <<>>
          /\ last_failure[s][1] < ThrottleSecs
          /\ ollama_start_failed[s] # <<>>) => ThrottledReturn(s)]_vars

\* a call later than the failure, and less than 30 s after it, has returned False
\* without calling start_ollama_service
C1_Witness ==
    \E s \in Sessions :
        /\ pc[s] = "done"
        /\ called[s] = <<"ensure_ollama_running">>
        /\ ret[s]["ensure_ollama_running"] = <<[ok |-> FALSE, msg |-> <<>>]>>
        /\ ollama_start_failed[s] # <<>>
        /\ ollama_start_failed[s][1] > 0
        /\ ollama_start_failed[s][1] < ThrottleSecs
        /\ service_log[s] = <<>>

\* C2: start_ollama_service returns success only while the probe classifies the
\* backend as 'ready'.
C2_StartSuccessMeansReady ==
    [][\A s \in Sessions :
         (/\ ReturnsNow(s, "start_ollama_service")
          /\ ret'[s]["start_ollama_service"][1].ok) => ~NotReady]_vars

\* C3: whenever stop_ollama_service returns success, no "ollama serve" process is
\* running as it returns (one session, every outcome of the lookup).
C3_StopSuccessMeansNoProcess ==
    [][\A s \in Sessions :
         (/\ ReturnsNow(s, "stop_ollama_service")
          /\ ret'[s]["stop_ollama_service"][1].ok) => procs' = {}]_vars

CallsOf(s, f) == Cardinality({j \in 1..Len(called[s]) : called[s][j] = f})

StartEntries(s) == {j \in 1..Len(service_log[s]) : service_log[s][j].action = "START"}

\* C4: restart_ollama_service calls start_ollama_service only after
\* stop_ollama_service has returned success; after a failed stop it returns
\* (False, aborted-at-stop message), nothing is launched and no START entry is
\* logged; after a successful stop start is called exactly once and restart
\* returns what start returned.
C4_RestartStartsOnlyAfterStop ==
    \A s \in Sessions :
        (called[s] # <<>> /\ called[s][1] = "restart_ollama_service") =>
            LET stopped == ret[s]["stop_ollama_service"]
                started == ret[s]["start_ollama_service"]
                result == ret[s]["restart_ollama_service"]
            IN  /\ CallsOf(s, "start_ollama_service") > 0 => stopped # <<>> /\ stopped[1].ok
                /\ result # <<>> =>
                      /\ stopped # <<>>
                      /\ IF ~stopped[1].ok
                         THEN /\ result[1] = [ok |-> FALSE,
                                              msg |-> <<"Restart aborted - stop failed:">>
                                                        \o stopped[1].msg]
                              /\ CallsOf(s, "start_ollama_service") = 0
                              /\ launched[s] = 0
                              /\ StartEntries(s) = {}
                         ELSE /\ CallsOf(s, "start_ollama_service") = 1
                              /\ started # <<>>
                              /\ result[1] = started[1]

\* a restart has been aborted at a failed stop
C4_Witness ==
    \E s \in Sessions :
        /\ pc[s] = "done"
        /\ called[s] = <<"restart_ollama_service", "stop_ollama_service">>
        /\ ret[s]["restart_ollama_service"] # <<>>
        /\ ~ret[s]["stop_ollama_service"][1].ok
        /\ procs # {}

\* the operation f that returns in this step has failed: the server that stop was
\* to end is still running, the server that start was to bring up does not answer
\* the health request, a phase of restart has failed
OperationFailed(s, f) ==
    CASE f = "stop_ollama_service"  -> procs' # {}
      [] f = "start_ollama_service" -> ~PollSucceeds(backend')
      [] f = "restart_ollama_service" ->
            \/ ~ret'[s]["stop_ollama_service"][1].ok
            \/ ret'[s]["start_ollama_service"] # <<>> /\ ~ret'[s]["start_ollama_service"][1].ok

\* C5: whatever failure occurs at any step, start_ollama_service,
\* stop_ollama_service and restart_ollama_service return a (bool, message) pair,
\* and a failed operation returns (False, message).
C5_FailureReturnsFalse ==
    [][\A s \in Sessions :
         \A f \in {"start_ollama_service", "stop_ollama_service", "restart_ollama_service"} :
            ReturnsNow(s, f) =>
                LET result == ret'[s][f][1]
                IN  /\ result.ok \in BOOLEAN
                    /\ result.msg # <<>>
                    /\ OperationFailed(s, f) => ~result.ok]_vars

\* check_ollama_status, called by the page script of s, returns in this step
ProbeReturns(s) == pc[s] = "probe" /\ pc'[s] # "probe"

\* C10: a call of check_ollama_status leaves the session state (chat history,
\* service log, start-failure marker, confirm flag) and the set of backend
\* processes unchanged, and a call that follows another with no change of the
\* backend's answer in between returns the same classification.
C10_ProbeHasNoEffect ==
    [][\A s \in Sessions :
         ProbeReturns(s) =>
            /\ UNCHANGED <<messages, service_log, ollama_start_failed, confirm_stop_ollama>>
            /\ UNCHANGED <<procs, backend, dirs>>
            /\ last_probe[s] # <<>> =>
                  ret'[s]["check_ollama_status"][1].msg = <<last_probe[s][1].status>>]_vars

\* check_ollama_status has returned 'ready' twice with no change in between, in
\* a session that holds a start-failure marker, while a server process runs
C10_Witness ==
    \E s \in Sessions :
        /\ pc[s] = "done"
        /\ ret[s]["check_ollama_status"] = <<[ok |-> TRUE, msg |-> <<"ready">>]>>
        /\ last_probe[s] = <<[status |-> "ready", calls |-> 2]>>
        /\ ollama_start_failed[s] # <<>>
        /\ procs # {}

\* the action under which each function logs
TagOf(f) ==
    CASE f = "start_ollama_service"   -> "START"
      [] f = "stop_ollama_service"    -> "STOP"
      [] f = "restart_ollama_service" -> "RESTART"

\* C13: every call of start_ollama_service, stop_ollama_service or
\* restart_ollama_service has appended to the session's service log, when it
\* returns, an entry tagged with its own action whose text is the message it
\* returns.
C13_OutcomeLogged ==
    [][\A s \in Sessions :
         \A f \in {"start_ollama_service", "stop_ollama_service", "restart_ollama_service"} :
            ReturnsNow(s, f) =>
                \E j \in 1..Len(service_log'[s]) :
                    /\ service_log'[s][j].action = TagOf(f)
                    /\ service_log'[s][j].result = ret'[s][f][1].msg]_vars

\* C14: start_ollama_service is not mutually exclusive across sessions.  No
\* session's call waits for another's: its already-ready check and its launch
\* can be executed whatever the other session is doing, so that two sessions
\* can both pass the check and both launch a process.
C14_StartNeverWaits ==
    \A s \in Sessions :
        /\ pc[s] = "start" => ENABLED StartProbe(s)
        /\ pc[s] = "start_popen" => ENABLED StartPopen(s)

\* with the backend offline both sessions have passed the check and launched:
\* two server processes
C14_Witness ==
    /\ Sessions = {1, 2}
    /\ check_ollama_status(OLLAMA_MODEL, backend).status = "offline"
    /\ \A s \in Sessions : pc[s] = "start_poll" /\ launched[s] = 1
    /\ Cardinality(procs) = 2

\* C15: in one session, over the runs of the page script (UI refreshes) during
\* which the backend is never 'ready', the ensure_ollama_running() of line 529
\* launches a process at most once in any 30-second window: when it launches,
\* its previous launch lies at least 30 s back.
C15_OneLaunchPerWindow ==
    [][\A s \in Sessions :
         (/\ AutoStart(s)
          /\ launched'[s] > launched[s]
          /\ last_launch[s] # <<>>) => last_launch[s][1] >= ThrottleSecs]_vars

\* C16: once start_ollama_service has launched the process, it returns failure
\* only after all 15 health polls, one per second, have failed; no outcome of a
\* single poll ends the polling early with a failure.
C16_FailureOnlyAfterAllPolls ==
    [][\A s \in Sessions :
         (/\ pc[s] = "start_poll"
          /\ ReturnsNow(s, "start_ollama_service")
          /\ ~ret'[s]["start_ollama_service"][1].ok) => i[s] = StartPolls]_vars

\* the script of s executes a statement in this step
Steps(s) == <<pc[s], i[s]>>' # <<pc[s], i[s]>>

\* the steps start_ollama_service and stop_ollama_service take at most: the
\* check, the launch, 15 polls and the give-up; the lookup, the SIGTERM pass, 10
\* polls, the SIGKILL pass and the final lookup
StartSteps == StartPolls + 3
StopSteps == StopPolls + 4

\* the steps the function at statement label, with loop counter n, has left at most
StepsLeft(label, n) ==
    CASE label = "start"              -> StartSteps
      [] label = "start_popen"        -> StartSteps - 1
      [] label = "start_poll"         -> StartPolls - n + 1
      [] label = "stop"               -> StopSteps
      [] label = "stop_term"          -> StopSteps - 1
      [] label = "stop_wait"          -> StopPolls - n + 2
      [] label = "stop_final"         -> 1
      [] label = "restart"            -> 1 + StopSteps + 1 + StartSteps + 1
      [] label = "restart_after_stop" -> 1 + StartSteps + 1
      [] label = "restart_return"     -> 1
      [] label = "ensure"             -> 1 + StartSteps + 1
      [] label = "ensure_after_start" -> 1
      [] label = "probe"              -> 1
      [] OTHER                        -> 0

\* the steps the functions on the stack have left once their callee has returned
RECURSIVE CallersSteps(_)
CallersSteps(frames) ==
    IF Len(frames) < 2 THEN 0
    ELSE StepsLeft(ResumeAt(frames[Len(frames) - 1], frames[Len(frames)]), 0)
         + CallersSteps(SubSeq(frames, 1, Len(frames) - 1))

\* C19: every call of a supervisor function ends with a result after a bounded
\* number of steps whatever the backend does: each step lowers the number of
\* steps left, which starts at 18 for start_ollama_service (15 polls), 14 for
\* stop_ollama_service (10 polls, one SIGKILL pass), and covers one stop and at
\* most one start for restart_ollama_service and at most one start for
\* ensure_ollama_running; nothing is retried.
C19_BoundedSteps ==
    [][\A s \in Sessions :
         (pc[s] \notin {"idle", "done"} /\ Steps(s)) =>
            /\ StepsLeft(pc'[s], i'[s]) + CallersSteps(stack'[s])
                  < StepsLeft(pc[s], i[s]) + CallersSteps(stack[s])
            /\ i'[s] <= Max(StartPolls, StopPolls)
            /\ pc'[s] = "done" =>
                  /\ ret'[s][called'[s][1]] # <<>>
                  /\ Cardinality({j \in 1..Len(called'[s]) :
                                     called'[s][j] = "start_ollama_service"}) <= 1
                  /\ Cardinality({j \in 1..Len(called'[s]) :
                                     called'[s][j] = "stop_ollama_service"}) <= 1]_vars

\* a restart has ended after a stop that went through all 10 polls and the
\* SIGKILL pass and a start that gave up after all 15 polls
C19_Witness ==
    \E s \in Sessions :
        /\ pc[s] = "done"
        /\ called[s] = <<"restart_ollama_service", "stop_ollama_service", "start_ollama_service">>
        /\ signalled[s].kill # {}
        /\ i[s] = StartPolls
        /\ ret[s]["restart_ollama_service"] # <<>>
        /\ ~ret[s]["restart_ollama_service"][1].ok

\* C20: within one stop_ollama_service call SIGKILL goes only to pids to which
\* that call has sent SIGTERM, and only after all 10 polls, also while another
\* session runs start_ollama_service.
C20_KillOnlyAfterTerm ==
    [][\A s \in Sessions :
         signalled'[s].kill \ signalled[s].kill # {} =>
            /\ signalled'[s].kill \subseteq signalled[s].term
            /\ pc[s] = "stop_wait" /\ i[s] = StopPolls]_vars

\* stop_ollama_service is entered in this step
StopInvoked(s) == pc[s] # "stop" /\ pc'[s] = "stop"

\* C21: in a session with a chat history, stop_ollama_service is entered only by
\* the Confirm Stop press, which finds confirm_stop_ollama set; only the Stop
\* click sets the flag; Cancel resets it and neither calls anything nor signals
\* a process.
C21_StopOnlyAfterConfirm ==
    [][\A s \in Sessions :
         /\ (messages[s] # <<>> /\ StopInvoked(s)) =>
               pc[s] = "idle" /\ confirm_stop_ollama[s] /\ ~confirm_stop_ollama'[s]
         /\ (~confirm_stop_ollama[s] /\ confirm_stop_ollama'[s]) =>
               pc[s] = "idle" /\ pc'[s] = "idle" /\ messages[s] # <<>>
         /\ (confirm_stop_ollama[s] /\ ~confirm_stop_ollama'[s] /\ pc'[s] = "idle") =>
               procs' = procs /\ signalled' = signalled /\ called' = called]_vars

(***************************************************************************)
(* Properties of the chat.                                                 *)
(***************************************************************************)

\* C7: whenever a handler of the chat has ended, the stored history holds at most
\* 2 * MAX_CONVERSATION_EXCHANGES turns, and they are the most recent ones.
C7_HistoryBounded ==
    \A s \in Sessions :
        pc[s] \in {"idle", "done"} =>
            /\ Len(messages[s]) <= 2 * MAX_CONVERSATION_EXCHANGES
            /\ \A j \in 1..Len(messages[s]) :
                  messages[s][j].content = appended[s] - Len(messages[s]) + j

\* the statements that send a request to the backend: the health probes of
\* check_ollama_status (lines 150, 223) and the chat request (line 353)
SendsRequest(s) ==
    \/ pc[s] \in {"ensure", "start", "probe", "sidebar", "chat_probe", "chat_stream"}
    \/ pc[s] = "start_poll" /\ i[s] < StartPolls
    \/ pc[s] = "chat_after_ensure" /\ ret[s]["ensure_ollama_running"][1].ok


\* C11: while a chat submission is handled with no transcript file present, no
\* request is sent to the backend and no backend process is launched; the
\* history gets the user turn and then the fixed assistant turn.
C11_NoTranscriptNoContact ==
    [][\A s \in Sessions :
         (get_all_files(dirs) = <<>> /\ pc[s] # "idle" /\ Steps(s)) =>
            /\ ~SendsRequest(s)
            /\ launched'[s] <= launched[s]
            /\ procs' \subseteq procs]_vars


\* the role of turn number n of a conversation of alternating user and
\* assistant turns
AlternatingRole(n) == IF n % 2 = 1 THEN "user" ELSE "assistant"

\* C17: in a conversation of alternating user and assistant turns, whenever
\* trimming has discarded turns, the turn list sent to the backend begins with a
\* user turn (never with an assistant turn whose user turn was discarded).
C17_SentBeginsWithUser ==
    \A s \in Sessions :
        (/\ sent[s] # <<>>
         /\ \A j \in 1..Len(sent[s]) : sent[s][j].role = AlternatingRole(sent[s][j].content)
         /\ sent[s][1].content > 1) => sent[s][1].role = "user"

(***************************************************************************)
(* Harnesses of the pure functions.  The app itself is absent from them:   *)
(* no session exists and the machine does not change.                      *)
(***************************************************************************)

AppAbsent ==
    /\ backend = Raise("ConnectionError") /\ procs = {} /\ dirs = {}
    /\ service_log = <<>> /\ ollama_start_failed = <<>>
    /\ messages = <<>> /\ confirm_stop_ollama = <<>>
    /\ pc = <<>> /\ stack = <<>> /\ pids = <<>> /\ i = <<>> /\ ret = <<>>
    /\ launched = <<>> /\ signalled = <<>> /\ called = <<>> /\ last_failure = <<>> /\ last_launch = <<>>
    /\ last_probe = <<>> /\ appended = <<>> /\ sent = <<>>

(***************************************************************************)
(* Harness for trim_conversation: every turn list up to MaxTurns turns,    *)
(* every window size up to MaxWindow.                                      *)
(***************************************************************************)

MaxTurns == 5
MaxWindow == 2

Roles == {"user", "assistant"}

TurnLists == UNION {[1..n -> Roles] : n \in 0..MaxTurns}

TrimInputs == {[turns |-> t, n |-> w] : t \in TurnLists, w \in 0..MaxWindow}

TrimInit == fn = "trim_conversation" /\ arg \in TrimInputs /\ out = <<>> /\ AppAbsent

TrimCall ==
    /\ fn = "trim_conversation"
    /\ ~Returned
    /\ out' = <<trim_conversation(arg.turns, arg.n)>>
    /\ UNCHANGED <<fn, arg, appVars>>

TrimNext == TrimCall

SpecTrim == TrimInit /\ [][TrimNext]_vars

\* C6: for every turn list of length L and every window size N >= 0 (0 included),
\* trim_conversation returns the suffix of length min(L, 2N), in the original order.
C6_TrimIsSuffixOfMinLen ==
    (fn = "trim_conversation" /\ Returned) =>
        LET L == Len(arg.turns)
            k == Min(L, 2 * arg.n)
        IN  /\ Len(RetVal) = k
            /\ \A j \in 1..k : RetVal[j] = arg.turns[L - k + j]

(***************************************************************************)
(* Harness for get_all_transcript_content: up to MaxFiles files in the two *)
(* directories, with texts around the budget.                              *)
(***************************************************************************)

MaxFiles == 2

FileNames == {<<1>>, <<1, 2>>, <<2>>, <<0, 1>>}
TextLens == {0, 5, limit - 10, limit, limit + 8000}

FileUniverse ==
    {[name |-> n, source |-> src, text |-> t] :
        n \in FileNames, src \in {"bundled", "uploaded"}, t \in TextLens}

\* the directory contents of up to n files; names are unique within a directory
RECURSIVE DirsUpTo(_)
DirsUpTo(n) ==
    IF n = 0 THEN {{}}
    ELSE LET smaller == DirsUpTo(n - 1)
         IN  smaller \cup
             {d \cup {f} : <<d, f>> \in
                 {p \in smaller \X FileUniverse :
                     \A g \in p[1] : ~(g.name = p[2].name /\ g.source = p[2].source)}}

Directories == DirsUpTo(MaxFiles)

ContextInit ==
    fn = "get_all_transcript_content" /\ arg \in Directories /\ out = <<>> /\ AppAbsent

ContextCall ==
    /\ fn = "get_all_transcript_content"
    /\ ~Returned
    /\ out' = <<get_all_transcript_content(arg)>>
    /\ UNCHANGED <<fn, arg, appVars>>

ContextNext == ContextCall

SpecContext == ContextInit /\ [][ContextNext]_vars

\* C8 (as stated): the length of the returned context string, file markers and
\* separators included, never exceeds the budget of 32,000 characters.
C8_ContextWithinBudget ==
    (fn = "get_all_transcript_content" /\ Returned) => ContextLen(RetVal) <= limit

\* C8 (amended): the transcript text in the returned context never exceeds 32,000
\* characters; the string is longer than that text by exactly its file markers and
\* separators (16 characters plus the name per file, one separator between files).
C8_TextWithinBudget ==
    (fn = "get_all_transcript_content" /\ Returned) =>
        /\ TextChars(RetVal) <= limit
        /\ ContextLen(RetVal) =
               TextChars(RetVal) + Max(Len(RetVal) - 1, 0)
               + SumPartLen([j \in 1..Len(RetVal) |-> [RetVal[j] EXCEPT !.chunk = 0]])

\* C8 witness: a context whose last file was cut at the budget, and whose string is
\* longer than the budget.
C8_Witness ==
    /\ fn = "get_all_transcript_content" /\ Returned
    /\ Len(RetVal) = 2
    /\ TextChars(RetVal) = limit
    /\ \E f \in arg : f.name = RetVal[2].name /\ RetVal[2].chunk < f.text
    /\ ContextLen(RetVal) > limit

\* part j of the context holds the full text of a file of that name
FullText(d, part) == \E f \in d : f.name = part.name /\ f.text = part.chunk

\* C18: in the context built by get_all_transcript_content the files appear in
\* ascending file-name order, every included file but the last contributes its
\* full text, and no file is included after a truncated one.
C18_OnlyLastFileTruncated ==
    (fn = "get_all_transcript_content" /\ Returned) =>
        /\ \A j, k \in 1..Len(RetVal) : j < k => ~LexLess(RetVal[k].name, RetVal[j].name)
        /\ \A j \in 1..Len(RetVal) : j < Len(RetVal) => FullText(arg, RetVal[j])
        /\ \A j \in 1..Len(RetVal) : RetVal[j].chunk > 0

\* two files of different names are included, the second one truncated
C18_Witness ==
    /\ fn = "get_all_transcript_content" /\ Returned
    /\ Len(RetVal) = 2
    /\ LexLess(RetVal[1].name, RetVal[2].name)
    /\ FullText(arg, RetVal[1])
    /\ ~FullText(arg, RetVal[2])

(***************************************************************************)
(* Harness for check_ollama_status: every outcome of the health request,   *)
(* with up to MaxModels installed models, for several configured names.    *)
(***************************************************************************)

MaxModels == 2

\* "llama3.2", "mistral:7b"
ConfiguredNames ==
    {OLLAMA_MODEL,
     <<"l", "l", "a", "m", "a", "3", ".", "2">>,
     <<"m", "i", "s", "t", "r", "a", "l", ":", "7", "b">>}

\* "llama3.2:3b", "llama3.2:1b", "llama3.2", "llama3", "mistral:latest", ""
InstalledNames ==
    {OLLAMA_MODEL,
     <<"l", "l", "a", "m", "a", "3", ".", "2", ":", "1", "b">>,
     <<"l", "l", "a", "m", "a", "3", ".", "2">>,
     <<"l", "l", "a", "m", "a", "3">>,
     <<"m", "i", "s", "t", "r", "a", "l", ":", "l", "a", "t", "e", "s", "t">>,
     <<>>}

NameLists == UNION {[1..n -> InstalledNames] : n \in 0..MaxModels}

HttpOutcomes ==
    {Response(200, TRUE, names) : names \in NameLists}
    \cup {Response(200, FALSE, <<>>), Response(500, TRUE, <<>>), Response(404, FALSE, <<>>)}
    \cup {Raise(exc) : exc \in RequestExceptions}

ProbeInputs == {[model |-> m, http |-> h] : m \in ConfiguredNames, h \in HttpOutcomes}

ProbeInit == fn = "check_ollama_status" /\ arg \in ProbeInputs /\ out = <<>> /\ AppAbsent

ProbeCall ==
    /\ fn = "check_ollama_status"
    /\ ~Returned
    /\ out' = <<check_ollama_status(arg.model, arg.http)>>
    /\ UNCHANGED <<fn, arg, appVars>>

ProbeNext == ProbeCall

SpecProbe == ProbeInit /\ [][ProbeNext]_vars

\* C9: check_ollama_status maps each outcome of the health request to the status
\* the spec assigns: 200 with an installed model equal to the configured name or
\* starting with its part before the colon -> ready, with that model's name; 200
\* with no such model -> no_model; connection refused -> offline; no response
\* within the timeout, connect or read -> timeout; non-200 -> server_error; any
\* other exception -> error.
C9_ProbeClassification ==
    (fn = "check_ollama_status" /\ Returned) =>
        LET http == arg.http
            matching == {j \in 1..Len(http.names) :
                            \/ http.names[j] = arg.model
                            \/ StartsWith(http.names[j], BeforeColon(arg.model))}
            expected ==
                CASE http.kind = "raise" /\ http.exc = "ConnectionError"            -> "offline"
                  [] http.kind = "raise" /\ http.exc \in {"ConnectTimeout", "ReadTimeout"} -> "timeout"
                  [] http.kind = "raise"                                             -> "error"
                  [] http.status_code # 200                                          -> "server_error"
                  [] ~http.json_ok                                                   -> "error"
                  [] matching # {}                                                   -> "ready"
                  [] OTHER                                                           -> "no_model"
        IN  /\ RetVal.status = expected
            /\ expected = "ready" => \E j \in matching : RetVal.detail = http.names[j]

(***************************************************************************)
(* stream_ollama_response: the generator's complete output, as the list of *)
(* the fragments it yields.  The request is [post, lines, ending]: what    *)
(* requests.post does ("ok", an HTTP error status, or an exception), the   *)
(* lines resp.iter_lines() delivers, and how the iteration ends ("end", or *)
(* the exception it raises after the last line).                           *)
(***************************************************************************)

CannotConnect == "Error: Cannot connect to the AI model server"
TookTooLong == "Error: The model took too long to respond"

\* mutant of StreamHandler: the Timeout clause comes first
StreamHandlerTimeoutFirst(exc) ==
    IF IsInstance(exc, "Timeout") THEN TookTooLong
    ELSE IF IsInstance(exc, "ConnectionError") THEN CannotConnect
    ELSE "Error: " \o exc

\* the except clauses of lines 367-372, in their order: the fragment yielded
StreamHandler(exc) ==
    IF IsInstance(exc, "ConnectionError") THEN CannotConnect
    ELSE IF IsInstance(exc, "Timeout") THEN TookTooLong
    ELSE "Error: " \o exc

\* a line of the stream: "blank" (skipped), "invalid" (json.loads raises), or
\* "data" with message.content chunk and the done flag
Line(kind, chunk, done) == [kind |-> kind, chunk |-> chunk, done |-> done]

\* the for loop of lines 359-366 from line k on, outp being what was yielded
RECURSIVE StreamFrom(_, _, _, _)
StreamFrom(lines, k, ending, outp) ==
    IF k > Len(lines)
    THEN IF ending = "end" THEN outp ELSE Append(outp, StreamHandler(ending))
    ELSE LET line == lines[k]
         IN  IF line.kind = "blank" THEN StreamFrom(lines, k + 1, ending, outp)
             ELSE IF line.kind = "invalid" THEN Append(outp, StreamHandler("ValueError"))
             ELSE LET yielded == IF line.chunk # "" THEN Append(outp, line.chunk) ELSE outp
                  IN  IF line.done THEN yielded
                      ELSE StreamFrom(lines, k + 1, ending, yielded)

\* lines 351-372
stream_ollama_response(request) ==
    IF request.post = "ok" THEN StreamFrom(request.lines, 1, request.ending, <<>>)
    ELSE IF request.post = "status" THEN <<StreamHandler("HTTPError")>>
    ELSE <<StreamHandler(request.post)>>

\* the lines explored per response
MaxLines == 2

StreamLines ==
    {Line("blank", "", FALSE), Line("invalid", "", FALSE),
     Line("data", "a", FALSE), Line("data", "", FALSE),
     Line("data", "b", TRUE), Line("data", "", TRUE)}

LineLists == UNION {[1..n -> StreamLines] : n \in 0..MaxLines}

\* what iter_lines raises: the connection breaks, no data within the read
\* timeout, a malformed chunked body
StreamEndings == {"end", "ConnectionError", "ReadTimeout", "ChunkedEncodingError"}

StreamRequests ==
    {[post |-> "ok", lines |-> l, ending |-> e] : l \in LineLists, e \in StreamEndings}
    \cup {[post |-> p, lines |-> <<>>, ending |-> "end"] :
             p \in {"status"} \cup RequestExceptions}

StreamInit == fn = "stream_ollama_response" /\ arg \in StreamRequests /\ out = <<>> /\ AppAbsent

StreamCall ==
    /\ fn = "stream_ollama_response"
    /\ ~Returned
    /\ out' = <<stream_ollama_response(arg)>>
    /\ UNCHANGED <<fn, arg, appVars>>

StreamNext == StreamCall

SpecStream == StreamInit /\ [][StreamNext]_vars

\* the request fails with a connection error on opening the connection
FailsOnOpening(request) ==
    request.post \in RequestExceptions /\ IsInstance(request.post, "ConnectionError")

\* the iteration gets through every line and then fails with a connection error
FailsWhileStreaming(request) ==
    /\ request.post = "ok"
    /\ request.ending # "end" /\ IsInstance(request.ending, "ConnectionError")
    /\ \A k \in 1..Len(request.lines) :
          \/ request.lines[k].kind = "blank"
          \/ request.lines[k].kind = "data" /\ ~request.lines[k].done

IsChunk(line) == line.kind = "data" /\ line.chunk # ""

\* the chunks received, in order
ChunksOf(lines) == [k \in 1..Len(SelectSeq(lines, IsChunk)) |-> SelectSeq(lines, IsChunk)[k].chunk]

\* C12 as stated: whenever the request fails with a connection error, on opening
\* the connection or after some chunks were received, the complete output is
\* exactly the one fixed 'Cannot connect' fragment.
C12_OnlyCannotConnect ==
    (fn = "stream_ollama_response" /\ Returned
        /\ (FailsOnOpening(arg) \/ FailsWhileStreaming(arg)))
    => RetVal = <<CannotConnect>>

\* C12 amended: a connection error on opening gives exactly the one fixed
\* fragment; a connection error after some lines gives the chunks received so
\* far, in order, followed by the fixed fragment, which is the last fragment and
\* occurs once.
C12_CannotConnectIsLast ==
    (fn = "stream_ollama_response" /\ Returned) =>
        /\ FailsOnOpening(arg) => RetVal = <<CannotConnect>>
        /\ FailsWhileStreaming(arg) => RetVal = ChunksOf(arg.lines) \o <<CannotConnect>>

\* the connection broke after a chunk had been yielded
C12_Witness ==
    /\ fn = "stream_ollama_response" /\ Returned
    /\ FailsWhileStreaming(arg)
    /\ Len(RetVal) = 2
    /\ RetVal[2] = CannotConnect

====
